---- MODULE Spec2Model ----
(***************************************************************************)
(* Model of src/src/cast.rs: the lowering of numeric casts to Cranelift    *)
(* instructions (clif_intcast, clif_int_or_float_cast).                    *)
(*                                                                         *)
(* The function builder is a sequence `ins` of emitted instructions.       *)
(* Value handle 0 is the operand `from`; handle i is the result of the     *)
(* i-th emitted instruction.  Running the emitted sequence on a concrete   *)
(* operand gives the run-time values `vals` (vals[h + 1] for handle h).    *)
(*                                                                         *)
(* Integers are bit vectors, least significant bit first, of exactly the   *)
(* width of their type (8 .. 128 bits), so no width is scaled down.        *)
(* Floats are NaN, an infinity, or (-1)^neg * mant * 2^exp.                *)
(***************************************************************************)
EXTENDS Integers, Sequences, FiniteSets, TLC

VARIABLES
    pc,                      \* "idle" | "called" | "returned" | "aborted" | "executed"
    from_ty,                 \* value_type(from)
    from_signed,             \* parameter from_signed
    to_ty,                   \* parameter to_ty
    to_signed,               \* parameter to_signed
    saturating_float_casts,  \* Option<bool>: "None" | "Some(true)" | "Some(false)"
    ins,                     \* instructions emitted into the function so far
    ret,                     \* the value handle the function returned
    val,                     \* the local `val` of the float -> int branch
    imports,                 \* names of the runtime routines called so far
    arg,                     \* run-time value of the operand
    vals                     \* run-time values of all handles, after execution

vars == <<pc, from_ty, from_signed, to_ty, to_signed, saturating_float_casts,
          ins, ret, val, imports, arg, vals>>

-----------------------------------------------------------------------------
(* Types *)

IntTypes == {"I8", "I16", "I32", "I64", "I128"}

FloatTypes == {"F32", "F64"}

\* A type that is neither a scalar integer nor a scalar float.
OtherTypes == {"I32X4"}

Types == IntTypes \cup FloatTypes \cup OtherTypes

is_int(ty) == ty \in IntTypes

is_float(ty) == ty \in FloatTypes

bits(ty) ==
    CASE ty = "I8" -> 8
      [] ty = "I16" -> 16
      [] ty = "I32" -> 32
      [] ty = "I64" -> 64
      [] ty = "I128" -> 128
      [] ty = "F32" -> 32
      [] ty = "F64" -> 64
      [] OTHER -> 128

wider_or_equal(a, b) == bits(a) >= bits(b)

NoHandle == 0 - 1

-----------------------------------------------------------------------------
(* Bit vectors *)

Pow2(n) == 2 ^ n

\* Bit i (weight 2^i) of a natural number n < 2^31.
NatBit(n, i) == IF i < 0 \/ i > 30 THEN 0 ELSE (n \div Pow2(i)) % 2

\* The w-bit two's complement encoding of an immediate -2^31 < n < 2^31.
ImmBits(w, n) ==
    [i \in 1..w |-> IF n >= 0 THEN NatBit(n, i - 1) ELSE 1 - NatBit((0 - n) - 1, i - 1)]

Zero(w) == [i \in 1..w |-> 0]

\* Unsigned and signed order on bit vectors of one width.
ULess(a, b) ==
    \E i \in 1..Len(a) :
        /\ a[i] < b[i]
        /\ \A j \in (i + 1)..Len(a) : a[j] = b[j]

SLess(a, b) ==
    LET w == Len(a)
    IN  IF a[w] # b[w] THEN a[w] = 1 ELSE ULess(a, b)

\* Two's complement negation.
Neg(a) ==
    [i \in 1..Len(a) |-> IF \A j \in 1..(i - 1) : a[j] = 0 THEN a[i] ELSE 1 - a[i]]

-----------------------------------------------------------------------------
(* Floats: NaN, an infinity, a finite (-1)^neg * mant * 2^exp with mant    *)
(* zero or odd, or the rounding of an integer (`of`, kept symbolically).   *)

NaN == [cls |-> "nan", neg |-> FALSE, mant |-> 0, exp |-> 0, of |-> <<>>]

Inf(n) == [cls |-> "inf", neg |-> n, mant |-> 0, exp |-> 0, of |-> <<>>]

Fin(n, m, e) == [cls |-> "fin", neg |-> n, mant |-> m, exp |-> e, of |-> <<>>]

Rounded(n, magnitude) ==
    [cls |-> "rounded", neg |-> n, mant |-> 0, exp |-> 0, of |-> magnitude]

RECURSIVE BitLen(_)
BitLen(n) == IF n = 0 THEN 0 ELSE 1 + BitLen(n \div 2)

\* Number of bits of the integer part of |f|.
MagLen(f) == IF f.mant = 0 THEN 0 ELSE BitLen(f.mant) + f.exp

\* The integer part of |f| (rounding toward zero) as a w-bit vector; it fits
\* when MagLen(f) <= w.
MagBits(w, f) == [i \in 1..w |-> NatBit(f.mant, (i - 1) - f.exp)]

MinInt(w, signed) == [i \in 1..w |-> IF signed /\ i = w THEN 1 ELSE 0]

MaxInt(w, signed) == [i \in 1..w |-> IF signed /\ i = w THEN 0 ELSE 1]

\* Saturating float -> integer conversion: round toward zero, clamp to the
\* range of the w-bit type.  The result for a NaN is left to the
\* implementation: `junk` is whatever pattern it produces.
TruncSat(w, signed, f, junk) ==
    CASE f.cls = "nan" -> ImmBits(w, junk)
      [] f.cls = "inf" -> IF f.neg THEN MinInt(w, signed) ELSE MaxInt(w, signed)
      [] OTHER ->
            IF MagLen(f) > w
            THEN IF f.neg THEN MinInt(w, signed) ELSE MaxInt(w, signed)
            ELSE LET m == MagBits(w, f)
                 IN  IF ~signed
                     THEN IF f.neg THEN Zero(w) ELSE m
                     ELSE IF f.neg
                          THEN IF m[w] = 1 THEN MinInt(w, TRUE) ELSE Neg(m)
                          ELSE IF m[w] = 1 THEN MaxInt(w, TRUE) ELSE m

\* Integer -> float conversion: the sign and the magnitude that is rounded.
IntToFloat(signed, a) ==
    IF signed /\ a[Len(a)] = 1 THEN Rounded(TRUE, Neg(a)) ELSE Rounded(FALSE, a)

FloatEq(a, b) ==
    /\ a.cls # "nan"
    /\ b.cls # "nan"
    /\ \/ a = b
       \/ a.cls = "fin" /\ b.cls = "fin" /\ a.mant = 0 /\ b.mant = 0

\* binary64 -> binary32: exact when 24 bits of mantissa and the exponent
\* range suffice, infinite on overflow, rounded otherwise.
Demote(f) ==
    CASE f.cls # "fin" -> f
      [] f.mant = 0 -> f
      [] MagLen(f) > 128 -> Inf(f.neg)
      [] BitLen(f.mant) <= 24 /\ f.exp >= 0 - 149 -> f
      [] OTHER -> Rounded(f.neg, <<f.mant, f.exp>>)

-----------------------------------------------------------------------------
(* Instructions and their execution *)

Inst(op, ty, args, imm, name) ==
    [op |-> op, ty |-> ty, args |-> args, imm |-> imm, name |-> name]

\* Runtime support routines for 128-bit conversions.
RuntimeRoutine(name, x, junk) ==
    CASE name \in {"__floattisf", "__floattidf"} -> IntToFloat(TRUE, x)
      [] name \in {"__floatuntisf", "__floatuntidf"} -> IntToFloat(FALSE, x)
      [] name \in {"__fixsfti", "__fixdfti"} -> TruncSat(128, TRUE, x, junk)
      [] name \in {"__fixunssfti", "__fixunsdfti"} -> TruncSat(128, FALSE, x, junk)
      [] OTHER -> <<>>

Bool(b) == ImmBits(8, IF b THEN 1 ELSE 0)

IntCC(cc, a, b) ==
    CASE cc = "SignedLessThan" -> SLess(a, b)
      [] cc = "SignedGreaterThan" -> SLess(b, a)
      [] cc = "UnsignedGreaterThan" -> ULess(b, a)
      [] OTHER -> FALSE

\* The value an instruction computes; v is the sequence of the values of
\* the handles defined before it (v[h + 1] for handle h).
Exec1(i, v, junk) ==
    LET a(k) == v[i.args[k] + 1]
        w == bits(i.ty)
    IN  CASE i.op = "sextend" -> [k \in 1..w |-> IF k <= Len(a(1)) THEN a(1)[k] ELSE a(1)[Len(a(1))]]
          [] i.op = "uextend" -> [k \in 1..w |-> IF k <= Len(a(1)) THEN a(1)[k] ELSE 0]
          [] i.op = "ireduce" -> [k \in 1..w |-> a(1)[k]]
          [] i.op = "fcvt_from_sint" -> IntToFloat(TRUE, a(1))
          [] i.op = "fcvt_from_uint" -> IntToFloat(FALSE, a(1))
          [] i.op = "fcvt_to_sint_sat" -> TruncSat(w, TRUE, a(1), junk)
          [] i.op = "fcvt_to_uint_sat" -> TruncSat(w, FALSE, a(1), junk)
          [] i.op = "iconst" -> ImmBits(w, i.imm)
          [] i.op = "icmp_imm" -> Bool(IntCC(i.name, a(1), ImmBits(Len(a(1)), i.imm)))
          [] i.op = "fcmp" -> Bool(FloatEq(a(1), a(2)))
          [] i.op = "select" -> IF a(1) # Zero(Len(a(1))) THEN a(2) ELSE a(3)
          [] i.op = "fpromote" -> a(1)
          [] i.op = "fdemote" -> Demote(a(1))
          [] i.op = "call" -> RuntimeRoutine(i.name, a(1), junk)
          [] OTHER -> <<>>

\* Run the instructions is[1..n] on operand x.
RECURSIVE Run(_, _, _, _)
Run(is, n, x, junk) ==
    IF n = 0
    THEN <<x>>
    ELSE LET v == Run(is, n - 1, x, junk)
         IN  Append(v, Exec1(is[n], v, junk))

-----------------------------------------------------------------------------
(* The builder: fx.bcx.ins().op(...) appends one instruction and returns   *)
(* the handle of its result.                                               *)

Emit(is, i) == [ins |-> Append(is, i), v |-> Len(is) + 1]

\* fx.bcx.func.dfg.value_type(h); fty is the type of the operand, handle 0.
value_type(is, fty, h) == IF h = 0 THEN fty ELSE is[h].ty

\* clif_intcast with the extension not chosen by `signed`.
clif_intcast_zext(is, fty, v, to, signed) ==
    LET from == value_type(is, fty, v)
    IN  IF from = to
        THEN [ins |-> is, v |-> v]
        ELSE IF wider_or_equal(to, from)
             THEN Emit(is, Inst("uextend", to, <<v>>, 0, ""))
             ELSE Emit(is, Inst("ireduce", to, <<v>>, 0, ""))

\* clif_intcast without its first match arm.
clif_intcast_noequal(is, fty, v, to, signed) ==
    LET from == value_type(is, fty, v)
    IN  IF wider_or_equal(to, from)
        THEN IF signed
             THEN Emit(is, Inst("sextend", to, <<v>>, 0, ""))
             ELSE Emit(is, Inst("uextend", to, <<v>>, 0, ""))
        ELSE Emit(is, Inst("ireduce", to, <<v>>, 0, ""))

clif_intcast(is, fty, v, to, signed) ==
    LET from == value_type(is, fty, v)
    IN  IF from = to
        THEN [ins |-> is, v |-> v]
        ELSE IF wider_or_equal(to, from)
             THEN IF signed
                  THEN Emit(is, Inst("sextend", to, <<v>>, 0, ""))
                  ELSE Emit(is, Inst("uextend", to, <<v>>, 0, ""))
             ELSE Emit(is, Inst("ireduce", to, <<v>>, 0, ""))

\* format!("__float{sign}ti{flt}f", ...); "" when the match is unreachable.
float_ti_name(signed, flt_ty) ==
    LET sign == IF signed THEN "" ELSE "un"
        flt == CASE flt_ty = "F32" -> "s" [] flt_ty = "F64" -> "d" [] OTHER -> ""
    IN  IF flt = "" THEN "" ELSE "__float" \o sign \o "ti" \o flt \o "f"

\* fix_ti_name with the sign prefix of the other format string.
fix_ti_name_typo(signed, flt_ty) ==
    LET sign == IF signed THEN "" ELSE "un"
        flt == CASE flt_ty = "F32" -> "s" [] flt_ty = "F64" -> "d" [] OTHER -> ""
    IN  IF flt = "" THEN "" ELSE "__fix" \o sign \o flt \o "fti"

\* format!("__fix{sign}{flt}fti", ...); "" when the match is unreachable.
fix_ti_name(signed, flt_ty) ==
    LET sign == IF signed THEN "" ELSE "uns"
        flt == CASE flt_ty = "F32" -> "s" [] flt_ty = "F64" -> "d" [] OTHER -> ""
    IN  IF flt = "" THEN "" ELSE "__fix" \o sign \o flt \o "fti"

\* fx.easy_call(name, &[CValue::by_val(from, ..)], to_rust_ty).load_scalar(fx)
easy_call(is, name, args, ret_ty) == Emit(is, Inst("call", ret_ty, args, 0, name))

\* clamp_bounds with u16::MAX in the signed 16-bit arm.
clamp_bounds_u16_max(ty, signed) ==
    CASE ty = "I8" /\ ~signed -> <<0, 255>>
      [] ty = "I16" /\ ~signed -> <<0, 65535>>
      [] ty = "I8" /\ signed -> <<0 - 128, 127>>
      [] ty = "I16" /\ signed -> <<0 - 32768, 65535>>
      [] OTHER -> <<>>

\* let (min, max) = match (to_ty, to_signed) { ... }
clamp_bounds(ty, signed) ==
    CASE ty = "I8" /\ ~signed -> <<0, 255>>
      [] ty = "I16" /\ ~signed -> <<0, 65535>>
      [] ty = "I8" /\ signed -> <<0 - 128, 127>>
      [] ty = "I16" /\ signed -> <<0 - 32768, 32767>>
      [] OTHER -> <<>>

\* clamp_and_reduce comparing signed in the unsigned arm.
clamp_and_reduce_signed_cmp(is, v, ty, signed) ==
    LET mm == clamp_bounds(ty, signed)
        min == mm[1]
        max == mm[2]
        min_val == Emit(is, Inst("iconst", "I32", <<>>, min, ""))
        max_val == Emit(min_val.ins, Inst("iconst", "I32", <<>>, max, ""))
        clamped ==
            IF signed
            THEN LET has_underflow ==
                         Emit(max_val.ins, Inst("icmp_imm", "I8", <<v>>, min, "SignedLessThan"))
                     has_overflow ==
                         Emit(has_underflow.ins,
                              Inst("icmp_imm", "I8", <<v>>, max, "SignedGreaterThan"))
                     bottom_capped ==
                         Emit(has_overflow.ins,
                              Inst("select", "I32", <<has_underflow.v, min_val.v, v>>, 0, ""))
                 IN  Emit(bottom_capped.ins,
                          Inst("select", "I32", <<has_overflow.v, max_val.v, bottom_capped.v>>, 0, ""))
            ELSE LET has_overflow ==
                         Emit(max_val.ins,
                              Inst("icmp_imm", "I8", <<v>>, max, "SignedGreaterThan"))
                 IN  Emit(has_overflow.ins,
                          Inst("select", "I32", <<has_overflow.v, max_val.v, v>>, 0, ""))
    IN  Emit(clamped.ins, Inst("ireduce", ty, <<clamped.v>>, 0, ""))

\* The clamp of the 32-bit handle v into the range of (ty, signed) and the
\* narrowing to ty.
clamp_and_reduce(is, v, ty, signed) ==
    LET mm == clamp_bounds(ty, signed)
        min == mm[1]
        max == mm[2]
        min_val == Emit(is, Inst("iconst", "I32", <<>>, min, ""))
        max_val == Emit(min_val.ins, Inst("iconst", "I32", <<>>, max, ""))
        clamped ==
            IF signed
            THEN LET has_underflow ==
                         Emit(max_val.ins, Inst("icmp_imm", "I8", <<v>>, min, "SignedLessThan"))
                     has_overflow ==
                         Emit(has_underflow.ins,
                              Inst("icmp_imm", "I8", <<v>>, max, "SignedGreaterThan"))
                     bottom_capped ==
                         Emit(has_overflow.ins,
                              Inst("select", "I32", <<has_underflow.v, min_val.v, v>>, 0, ""))
                 IN  Emit(bottom_capped.ins,
                          Inst("select", "I32", <<has_overflow.v, max_val.v, bottom_capped.v>>, 0, ""))
            ELSE LET has_overflow ==
                         Emit(max_val.ins,
                              Inst("icmp_imm", "I8", <<v>>, max, "UnsignedGreaterThan"))
                 IN  Emit(has_overflow.ins,
                          Inst("select", "I32", <<has_overflow.v, max_val.v, v>>, 0, ""))
    IN  Emit(clamped.ins, Inst("ireduce", ty, <<clamped.v>>, 0, ""))

\* let val = if to_ty == types::I128 { .. } else if .. { .. } else { .. };
\* v = NoHandle when an unreachable!() is hit.
magnitude_conversion(is, fty, from, ty, signed) ==
    IF ty = "I128"
    THEN LET name == fix_ti_name(signed, fty)
         IN  IF name = ""
             THEN [ins |-> is, v |-> NoHandle]
             ELSE easy_call(is, name, <<from>>, "I128")
    ELSE IF ty = "I8" \/ ty = "I16"
         THEN LET v32 == IF signed
                         THEN Emit(is, Inst("fcvt_to_sint_sat", "I32", <<from>>, 0, ""))
                         ELSE Emit(is, Inst("fcvt_to_uint_sat", "I32", <<from>>, 0, ""))
              IN  clamp_and_reduce(v32.ins, v32.v, ty, signed)
         ELSE IF signed
              THEN Emit(is, Inst("fcvt_to_sint_sat", ty, <<from>>, 0, ""))
              ELSE Emit(is, Inst("fcvt_to_uint_sat", ty, <<from>>, 0, ""))

\* nan_stage skipping the stage when the option is unset, too.
nan_stage_unset_skips(is, from, v, ty, opt) ==
    IF opt # "Some(true)"
    THEN [ins |-> is, v |-> v]
    ELSE LET is_not_nan == Emit(is, Inst("fcmp", "I8", <<from, from>>, 0, "Equal"))
             zero == Emit(is_not_nan.ins, Inst("iconst", ty, <<>>, 0, ""))
         IN  Emit(zero.ins, Inst("select", ty, <<is_not_nan.v, v, zero.v>>, 0, ""))

\* nan_stage without the early return.
nan_stage_always(is, from, v, ty, opt) ==
    LET is_not_nan == Emit(is, Inst("fcmp", "I8", <<from, from>>, 0, "Equal"))
        zero == Emit(is_not_nan.ins, Inst("iconst", ty, <<>>, 0, ""))
    IN  Emit(zero.ins, Inst("select", ty, <<is_not_nan.v, v, zero.v>>, 0, ""))

\* nan_stage with the arms of the select exchanged.
nan_stage_swapped(is, from, v, ty, opt) ==
    IF opt = "Some(false)"
    THEN [ins |-> is, v |-> v]
    ELSE LET is_not_nan == Emit(is, Inst("fcmp", "I8", <<from, from>>, 0, "Equal"))
             zero == Emit(is_not_nan.ins, Inst("iconst", ty, <<>>, 0, ""))
         IN  Emit(zero.ins, Inst("select", ty, <<is_not_nan.v, zero.v, v>>, 0, ""))

\* if let Some(false) = ..saturating_float_casts { return val; }
\* otherwise fcmp, iconst, select.
nan_stage(is, from, v, ty, opt) ==
    IF opt = "Some(false)"
    THEN [ins |-> is, v |-> v]
    ELSE LET is_not_nan == Emit(is, Inst("fcmp", "I8", <<from, from>>, 0, "Equal"))
             zero == Emit(is_not_nan.ins, Inst("iconst", ty, <<>>, 0, ""))
         IN  Emit(zero.ins, Inst("select", ty, <<is_not_nan.v, v, zero.v>>, 0, ""))

Returned(r, v) == [ins |-> r.ins, ret |-> r.v, val |-> v, abort |-> FALSE]

Unreachable(is) == [ins |-> is, ret |-> NoHandle, val |-> NoHandle, abort |-> TRUE]

\* int_to_float without the `return` after the call.
int_to_float_fallthrough(is, fty, from, fsigned, ty) ==
    LET called == IF fty = "I128"
                  THEN easy_call(is, float_ti_name(fsigned, ty), <<from>>, ty).ins
                  ELSE is
    IN  IF fsigned
        THEN Returned(Emit(called, Inst("fcvt_from_sint", ty, <<from>>, 0, "")), NoHandle)
        ELSE Returned(Emit(called, Inst("fcvt_from_uint", ty, <<from>>, 0, "")), NoHandle)

\* } else if from_ty.is_int() && to_ty.is_float() { ... }
int_to_float(is, fty, from, fsigned, ty) ==
    IF fty = "I128"
    THEN LET name == float_ti_name(fsigned, ty)
         IN  IF name = ""
             THEN Unreachable(is)
             ELSE Returned(easy_call(is, name, <<from>>, ty), NoHandle)
    ELSE IF fsigned
         THEN Returned(Emit(is, Inst("fcvt_from_sint", ty, <<from>>, 0, "")), NoHandle)
         ELSE Returned(Emit(is, Inst("fcvt_from_uint", ty, <<from>>, 0, "")), NoHandle)

\* } else if from_ty.is_float() && to_ty.is_int() { ... }
float_to_int(is, fty, from, ty, tsigned, opt) ==
    LET m == magnitude_conversion(is, fty, from, ty, tsigned)
    IN  IF m.v = NoHandle
        THEN Unreachable(is)
        ELSE Returned(nan_stage(m.ins, from, m.v, ty, opt), m.v)

\* } else if from_ty.is_float() && to_ty.is_float() { ... }
float_to_float(is, fty, from, ty) ==
    IF fty = "F32" /\ ty = "F64"
    THEN Returned(Emit(is, Inst("fpromote", "F64", <<from>>, 0, "")), NoHandle)
    ELSE IF fty = "F64" /\ ty = "F32"
         THEN Returned(Emit(is, Inst("fdemote", "F32", <<from>>, 0, "")), NoHandle)
         ELSE Returned([ins |-> is, v |-> from], NoHandle)

\* clif_int_or_float_cast returning its operand where it should abort.
clif_int_or_float_cast_silent(is, fty, from, fsigned, ty, tsigned, opt) ==
    IF is_int(fty) /\ is_int(ty)
    THEN Returned(clif_intcast(is, fty, from, ty, fsigned), NoHandle)
    ELSE IF is_int(fty) /\ is_float(ty)
         THEN int_to_float(is, fty, from, fsigned, ty)
         ELSE IF is_float(fty) /\ is_int(ty)
              THEN float_to_int(is, fty, from, ty, tsigned, opt)
              ELSE IF is_float(fty) /\ is_float(ty)
                   THEN float_to_float(is, fty, from, ty)
                   ELSE Returned([ins |-> is, v |-> from], NoHandle)

clif_int_or_float_cast(is, fty, from, fsigned, ty, tsigned, opt) ==
    IF is_int(fty) /\ is_int(ty)
    THEN Returned(clif_intcast(is, fty, from, ty, fsigned), NoHandle)
    ELSE IF is_int(fty) /\ is_float(ty)
         THEN int_to_float(is, fty, from, fsigned, ty)
         ELSE IF is_float(fty) /\ is_int(ty)
              THEN float_to_int(is, fty, from, ty, tsigned, opt)
              ELSE IF is_float(fty) /\ is_float(ty)
                   THEN float_to_float(is, fty, from, ty)
                   ELSE Unreachable(is)

-----------------------------------------------------------------------------
(* Operands a cast site can be given *)

\* Low bytes of the integer operands tried.
LowSeeds == {0, 1, 200, 255}

\* The w-bit pattern with low byte `low`, bits above it `fill`, top bit `top`.
Pattern(w, low, fill, top) ==
    [i \in 1..w |-> IF i = w THEN top ELSE IF i <= 8 THEN NatBit(low, i - 1) ELSE fill]

IntSamples(ty) ==
    {Pattern(bits(ty), low, fill, top) : low \in LowSeeds, fill \in {0, 1}, top \in {0, 1}}

\* <<mant, exp>> of the finite binary32 operands tried (mant odd).
FinSeeds32 ==
    { <<1, 0>>, <<1, 0 - 1>>, <<7, 0 - 1>>, <<25, 3>>, <<75, 2>>,
      <<127, 0>>, <<255, 0 - 1>>, <<1, 7>>, <<257, 0 - 1>>, <<129, 0>>,
      <<255, 0>>, <<511, 0 - 1>>, <<1, 8>>,
      <<32767, 0>>, <<1, 15>>, <<32769, 0>>, <<65535, 0>>, <<1, 16>>,
      <<16777215, 7>>, <<1, 31>>, <<16777215, 8>>, <<1, 32>>,
      <<1, 63>>, <<1, 64>>, <<1, 100>>, <<16777215, 103>>, <<1, 127>>,
      <<16777215, 104>> }

\* More for binary64: 2^31 - 1, 2^31 + 1, 2^32 - 2, 2^128, 2^1000.
FinSeeds64 ==
    FinSeeds32 \cup { <<2147483647, 0>>, <<2147483647, 1>>, <<1, 128>>, <<1, 1000>> }

FloatSamples(ty) ==
    {NaN, Inf(FALSE), Inf(TRUE), Fin(FALSE, 0, 0), Fin(TRUE, 0, 0)}
        \cup {Fin(n, s[1], s[2]) : n \in BOOLEAN,
                                   s \in IF ty = "F32" THEN FinSeeds32 ELSE FinSeeds64}

Samples(ty) ==
    CASE is_int(ty) -> IntSamples(ty)
      [] is_float(ty) -> FloatSamples(ty)
      [] OTHER -> {<<>>}

Options == {"None", "Some(true)", "Some(false)"}

\* What a conversion may produce for a NaN: the low bits of these numbers.
MaxJunk == 2

JunkSeeds == (0 - MaxJunk)..MaxJunk

-----------------------------------------------------------------------------
(* Actions *)

Init ==
    /\ pc = "idle"
    /\ from_ty = "I8"
    /\ from_signed = FALSE
    /\ to_ty = "I8"
    /\ to_signed = FALSE
    /\ saturating_float_casts = "None"
    /\ ins = <<>>
    /\ ret = NoHandle
    /\ val = NoHandle
    /\ imports = {}
    /\ arg = <<>>
    /\ vals = <<>>

\* A cast site: the caller supplies the operand, the types and the flags.
CallWith(ft, fs, tt, ts, opt, x) ==
    /\ pc' = "called"
    /\ from_ty' = ft
    /\ from_signed' = fs
    /\ to_ty' = tt
    /\ to_signed' = ts
    /\ saturating_float_casts' = opt
    /\ arg' = x
    /\ ins' = <<>>
    /\ ret' = NoHandle
    /\ val' = NoHandle
    /\ vals' = <<>>
    /\ UNCHANGED imports

Call ==
    /\ pc = "idle"
    /\ \E ft \in Types, tt \in Types, fs \in BOOLEAN, ts \in BOOLEAN, opt \in Options :
           \E x \in Samples(ft) : CallWith(ft, fs, tt, ts, opt, x)

CalledNames(is) == {is[k].name : k \in {j \in 1..Len(is) : is[j].op = "call"}}

\* clif_int_or_float_cast runs to its return or to an unreachable!().
Lower ==
    /\ pc = "called"
    /\ LET r == clif_int_or_float_cast(ins, from_ty, 0, from_signed, to_ty, to_signed,
                                       saturating_float_casts)
       IN  /\ pc' = IF r.abort THEN "aborted" ELSE "returned"
           /\ ins' = r.ins
           /\ ret' = r.ret
           /\ val' = r.val
           /\ imports' = imports \cup CalledNames(r.ins)
    /\ UNCHANGED <<from_ty, from_signed, to_ty, to_signed, saturating_float_casts, arg, vals>>

\* The emitted code runs on the operand.
Execute ==
    /\ pc = "returned"
    /\ \E junk \in JunkSeeds : vals' = Run(ins, Len(ins), arg, junk)
    /\ pc' = "executed"
    /\ UNCHANGED <<from_ty, from_signed, to_ty, to_signed, saturating_float_casts,
                   ins, ret, val, imports, arg>>

Next == Call \/ Lower \/ Execute

Spec == Init /\ [][Next]_vars

-----------------------------------------------------------------------------
(* Many cast sites: the runtime routines one program comes to call.        *)

LinkOperands(ty) ==
    IF is_int(ty)
    THEN {Pattern(bits(ty), 200, 0, 1)}
    ELSE {NaN, Fin(FALSE, 1, 100)}

\* A cast site between a 128-bit integer and a float.
CallLink ==
    /\ pc = "idle"
    /\ \E flt \in FloatTypes, fs \in BOOLEAN, ts \in BOOLEAN, opt \in Options :
           \/ \E x \in LinkOperands("I128") : CallWith("I128", fs, flt, ts, opt, x)
           \/ \E x \in LinkOperands(flt) : CallWith(flt, fs, "I128", ts, opt, x)

\* The caller goes on to its next cast site; the routines called stay imported.
NextSite ==
    /\ pc = "returned"
    /\ pc' = "idle"
    /\ ins' = <<>>
    /\ ret' = NoHandle
    /\ val' = NoHandle
    /\ UNCHANGED <<from_ty, from_signed, to_ty, to_signed, saturating_float_casts,
                   imports, arg, vals>>

NextLink == CallLink \/ Lower \/ NextSite

SpecLink == Init /\ [][NextLink]_vars

-----------------------------------------------------------------------------
(* The clamp of the 8/16-bit path alone, on any 32-bit intermediate value. *)

ClampSeeds ==
    { 0 - 2147483647, 0 - 65536, 0 - 32769, 0 - 32768, 0 - 32767, 0 - 129, 0 - 128,
      0 - 127, 0 - 1, 0, 1, 126, 127, 128, 254, 255, 256, 32766, 32767, 32768,
      65534, 65535, 65536, 2147483647 }

ClampSamples == IntSamples("I32") \cup {ImmBits(32, n) : n \in ClampSeeds}

CallClamp ==
    /\ pc = "idle"
    /\ \E ty \in {"I8", "I16"}, ts \in BOOLEAN, x \in ClampSamples :
           CallWith("I32", ts, ty, ts, "None", x)

LowerClamp ==
    /\ pc = "called"
    /\ LET r == clamp_and_reduce(ins, 0, to_ty, to_signed)
       IN  /\ ins' = r.ins
           /\ ret' = r.v
           /\ val' = r.v
    /\ pc' = "returned"
    /\ UNCHANGED <<from_ty, from_signed, to_ty, to_signed, saturating_float_casts,
                   imports, arg, vals>>

NextClamp == CallClamp \/ LowerClamp \/ Execute

SpecClamp == Init /\ [][NextClamp]_vars

-----------------------------------------------------------------------------
(* Numbers, for stating the properties: a sign and a magnitude, the        *)
(* magnitude a bit vector without leading zeros.                           *)

Strip(a) ==
    LET ones == {i \in 1..Len(a) : a[i] = 1}
        hi == IF ones = {} THEN 0 ELSE CHOOSE i \in ones : \A j \in ones : j <= i
    IN  [i \in 1..hi |-> a[i]]

Num(a, signed) ==
    IF signed /\ a[Len(a)] = 1
    THEN [neg |-> TRUE, mag |-> Strip(Neg(a))]
    ELSE [neg |-> FALSE, mag |-> Strip(a)]

\* The number n, -2^31 < n < 2^31.
NumOf(n) ==
    IF n < 0
    THEN [neg |-> TRUE, mag |-> Strip(ImmBits(32, 0 - n))]
    ELSE [neg |-> FALSE, mag |-> Strip(ImmBits(32, n))]

MagLess(a, b) ==
    \/ Len(a) < Len(b)
    \/ /\ Len(a) = Len(b)
       /\ \E i \in 1..Len(a) : a[i] < b[i] /\ \A j \in (i + 1)..Len(a) : a[j] = b[j]

NumLess(x, y) ==
    CASE x.neg /\ ~y.neg -> TRUE
      [] ~x.neg /\ y.neg -> FALSE
      [] ~x.neg /\ ~y.neg -> MagLess(x.mag, y.mag)
      [] OTHER -> MagLess(y.mag, x.mag)

Done == pc \in {"returned", "executed"}

IntToInt == is_int(from_ty) /\ is_int(to_ty)

IntToFloat128 == from_ty = "I128" /\ is_float(to_ty)

IntToFloatCast == is_int(from_ty) /\ is_float(to_ty)

FloatToInt == is_float(from_ty) /\ is_int(to_ty)

FloatToFloat == is_float(from_ty) /\ is_float(to_ty)

\* The run-time value of the handle the cast returned.
Out == vals[ret + 1]

-----------------------------------------------------------------------------
\* C1: an integer cast to a strictly wider integer type emits exactly one
\* extension of the operand, sextend when from_signed and uextend otherwise
\* whatever to_signed is; the result is the same number as the operand read
\* with the source's signedness, and its low bits of the source width are
\* the operand's bit pattern.
C1_WidenIsOneLosslessExtension ==
    (Done /\ IntToInt /\ bits(to_ty) > bits(from_ty)) =>
        /\ ins = <<Inst(IF from_signed THEN "sextend" ELSE "uextend", to_ty, <<0>>, 0, "")>>
        /\ ret = 1
        /\ pc = "executed" =>
              /\ Len(Out) = bits(to_ty)
              /\ Num(Out, from_signed) = Num(arg, from_signed)
              /\ [i \in 1..bits(from_ty) |-> Out[i]] = arg

\* A negative signed 8-bit operand was widened to an unsigned 128-bit type.
C1_Witness ==
    /\ pc = "executed"
    /\ from_ty = "I8" /\ to_ty = "I128" /\ from_signed /\ ~to_signed
    /\ arg[8] = 1
    /\ Out[128] = 1
    /\ ins[1].op = "sextend"

\* C2: an integer cast to a type that is not wider returns the low-order
\* bits of the operand for all flags; for equal widths it returns the
\* operand's own handle and emits nothing.
C2_NarrowKeepsLowBits ==
    (Done /\ IntToInt /\ bits(to_ty) <= bits(from_ty)) =>
        /\ bits(to_ty) = bits(from_ty) => (ins = <<>> /\ ret = 0)
        /\ bits(to_ty) < bits(from_ty) => (ins = <<Inst("ireduce", to_ty, <<0>>, 0, "")>> /\ ret = 1)
        /\ pc = "executed" => Out = [i \in 1..bits(to_ty) |-> arg[i]]

\* A negative signed 32-bit operand was cast to unsigned 8 bits: 255.
C2_Witness ==
    /\ pc = "executed"
    /\ from_ty = "I32" /\ to_ty = "I8" /\ from_signed /\ ~to_signed
    /\ arg[32] = 1 /\ arg[9] = 1
    /\ Out = ImmBits(8, 255)

\* f > the largest value of the w-bit type (f finite, mant odd or zero).
AboveRange(f, w, signed) ==
    LET k == IF signed THEN w - 1 ELSE w
    IN  /\ ~f.neg
        /\ f.mant > 0
        /\ \/ MagLen(f) > k
           \/ /\ MagLen(f) = k
              /\ f.exp < 0
              /\ \A i \in 0..(k - 1) : NatBit(f.mant, i - f.exp) = 1

\* f < the smallest value of the w-bit type (f finite, mant odd or zero).
BelowRange(f, w, signed) ==
    /\ f.neg
    /\ f.mant > 0
    /\ signed => (MagLen(f) > w \/ (MagLen(f) = w /\ f.mant # 1))

\* C3: a finite float outside the range of the destination integer type is
\* cast to the destination's maximum (float above the range) or minimum
\* (float below it), for every destination width and signedness.
C3_OutOfRangeSaturates ==
    (pc = "executed" /\ FloatToInt /\ arg.cls = "fin") =>
        /\ AboveRange(arg, bits(to_ty), to_signed) => Out = MaxInt(bits(to_ty), to_signed)
        /\ BelowRange(arg, bits(to_ty), to_signed) => Out = MinInt(bits(to_ty), to_signed)

\* 2^100 (about 1e30) was cast from binary32 to signed 16 bits: 32767.
C3_Witness ==
    /\ pc = "executed"
    /\ from_ty = "F32" /\ to_ty = "I16" /\ to_signed
    /\ saturating_float_casts = "None"
    /\ arg = Fin(FALSE, 1, 100)
    /\ Out = ImmBits(16, 32767)

\* C4: with saturating_float_casts unset or Some(true), a float -> integer
\* cast of a NaN returns zero of the destination type whatever the magnitude
\* conversion produced, and a cast of any other float returns the magnitude
\* conversion's result; the two settings emit the same instructions.
C4_NaNIsZero ==
    (pc = "executed" /\ FloatToInt /\ saturating_float_casts # "Some(false)") =>
        /\ IF arg.cls = "nan"
           THEN Out = Zero(bits(to_ty))
           ELSE Out = vals[val + 1]
        /\ LET other == IF saturating_float_casts = "None" THEN "Some(true)" ELSE "None"
           IN  ins = clif_int_or_float_cast(<<>>, from_ty, 0, from_signed, to_ty, to_signed,
                                            other).ins

\* A NaN was cast to unsigned 32 bits with the option unset: the conversion
\* produced a non-zero pattern and the cast returned 0.
C4_Witness ==
    /\ pc = "executed"
    /\ is_float(from_ty) /\ to_ty = "I32" /\ ~to_signed
    /\ saturating_float_casts = "None"
    /\ arg = NaN
    /\ vals[val + 1] # Zero(32)
    /\ Out = Zero(32)

\* C5: with saturating_float_casts = Some(false), a float -> integer cast
\* returns the handle of the magnitude conversion itself, and the emitted
\* sequence holds no fcmp, no zero constant of the destination type and no
\* select of the destination type.
C5_DisabledSkipsNaNStage ==
    (Done /\ FloatToInt /\ saturating_float_casts = "Some(false)") =>
        /\ ret = val
        /\ ret = Len(ins)
        /\ \A i \in 1..Len(ins) :
              /\ ins[i].op # "fcmp"
              /\ ~(ins[i].op = "iconst" /\ ins[i].ty = to_ty /\ ins[i].imm = 0)
              /\ ~(ins[i].op = "select" /\ ins[i].ty = to_ty)
        /\ pc = "executed" => Out = vals[val + 1]

\* A NaN was cast to 64 bits with the option disabled, and the non-zero
\* pattern the conversion produced was returned.
C5_Witness ==
    /\ pc = "executed"
    /\ is_float(from_ty) /\ to_ty = "I64"
    /\ saturating_float_casts = "Some(false)"
    /\ arg = NaN
    /\ Out # Zero(64)
    /\ ins[Len(ins)].op \in {"fcvt_to_sint_sat", "fcvt_to_uint_sat"}

\* The names the source documents, by direction, signedness and float type.
DocumentedName(to_float, signed, flt_ty) ==
    CASE to_float /\ signed /\ flt_ty = "F32" -> "__floattisf"
      [] to_float /\ signed /\ flt_ty = "F64" -> "__floattidf"
      [] to_float /\ ~signed /\ flt_ty = "F32" -> "__floatuntisf"
      [] to_float /\ ~signed /\ flt_ty = "F64" -> "__floatuntidf"
      [] ~to_float /\ signed /\ flt_ty = "F32" -> "__fixsfti"
      [] ~to_float /\ signed /\ flt_ty = "F64" -> "__fixdfti"
      [] ~to_float /\ ~signed /\ flt_ty = "F32" -> "__fixunssfti"
      [] OTHER -> "__fixunsdfti"

DocumentedNames ==
    {DocumentedName(d, sg, f) : d \in BOOLEAN, sg \in BOOLEAN, f \in FloatTypes}

\* The name called by the cast lowered in this state agrees with the
\* documented scheme, which gives distinct combinations distinct names.
NameFollowsScheme ==
    (Done /\ (IntToFloat128 \/ (is_float(from_ty) /\ to_ty = "I128"))) =>
        /\ Cardinality({i \in 1..Len(ins) : ins[i].op = "call"}) = 1
        /\ CalledNames(ins) =
              {IF is_int(from_ty)
               THEN DocumentedName(TRUE, from_signed, to_ty)
               ELSE DocumentedName(FALSE, to_signed, from_ty)}
        /\ CalledNames(ins) \subseteq imports

\* C6 as claimed: the casts between 128-bit integers and floats call the
\* runtime by six fixed names, a function of (direction, signedness, float
\* width) that is injective.
C6_SixNames ==
    /\ Cardinality(imports) <= 6
    /\ NameFollowsScheme

\* C6 as amended: the names are eight, one for each combination of
\* direction, signedness and float width; the name called is a function of
\* the combination and distinct combinations get distinct names.
C6_EightNames ==
    /\ imports \subseteq DocumentedNames
    /\ Cardinality(DocumentedNames) = 8
    /\ NameFollowsScheme

\* A program has cast in all eight ways and imports eight routines.
C6_Witness == Cardinality(imports) = 8 /\ pc = "returned"

\* C7: an integer -> float cast of a source of at most 64 bits emits exactly
\* one fcvt_from_sint (from_signed) or fcvt_from_uint (otherwise) and no
\* call; of a 128-bit source, exactly one call with the operand as its only
\* argument and the float as its result, and no fcvt_from_*.
C7_IntToFloatOneInstruction ==
    (Done /\ IntToFloatCast) =>
        /\ Len(ins) = 1
        /\ ret = 1
        /\ ins[1].args = <<0>>
        /\ ins[1].ty = to_ty
        /\ IF bits(from_ty) <= 64
           THEN /\ ins[1].op = IF from_signed THEN "fcvt_from_sint" ELSE "fcvt_from_uint"
                /\ CalledNames(ins) = {}
           ELSE /\ ins[1].op = "call"
                /\ ins[1].name # ""

\* An unsigned 128-bit operand was cast to binary64 by one call.
C7_Witness ==
    /\ pc = "executed"
    /\ from_ty = "I128" /\ ~from_signed /\ to_ty = "F64"
    /\ ins = <<Inst("call", "F64", <<0>>, 0, "__floatuntidf")>>
    /\ Out.cls = "rounded"

\* C8: a request whose kinds are int/int, int/float, float/int or
\* float/float returns one value and never aborts; any other request aborts
\* without a value and without emitting an instruction.
C8_DocumentedPairsReturn ==
    (pc \in {"returned", "aborted", "executed"}) =>
        IF IntToInt \/ IntToFloatCast \/ FloatToInt \/ FloatToFloat
        THEN /\ pc # "aborted"
             /\ ret \in 0..Len(ins)
             /\ pc = "executed" => (Len(vals) = Len(ins) + 1 /\ Out # <<>>)
        ELSE /\ pc = "aborted"
             /\ ins = <<>>
             /\ ret = NoHandle

\* A cast from a vector type to a float aborted with nothing emitted.
C8_Witness ==
    /\ pc = "aborted"
    /\ from_ty = "I32X4" /\ to_ty = "F32"
    /\ ins = <<>>
    /\ ret = NoHandle

BranchOps == {"jump", "brif", "br_table", "return", "trap", "trapz", "trapnz"}

\* C9: the sequence emitted for a float -> integer cast is straight-line and
\* ordered: no branch, every argument defined earlier, the magnitude
\* conversion first (for 8 and 16 bits: the 32-bit saturating conversion,
\* then constants, compares and selects, then the ireduce), then, unless
\* disabled, fcmp(from, from), the zero constant and as last instruction
\* select(is_not_nan, val, zero).
C9_StraightLineOrder ==
    (Done /\ FloatToInt) =>
        /\ \A i \in 1..Len(ins) :
              /\ ins[i].op \notin BranchOps
              /\ \A k \in 1..Len(ins[i].args) : ins[i].args[k] < i
        /\ val \in 1..Len(ins)
        /\ \A i \in 1..val : ins[i].op # "fcmp"
        /\ to_ty \in {"I8", "I16"} =>
              /\ ins[1] = Inst(IF to_signed THEN "fcvt_to_sint_sat" ELSE "fcvt_to_uint_sat",
                               "I32", <<0>>, 0, "")
              /\ ins[val].op = "ireduce" /\ ins[val].ty = to_ty
              /\ \A i \in 2..(val - 1) :
                    /\ ins[i].op \in {"iconst", "icmp_imm", "select"}
                    /\ ins[i].op = "select" => ins[ins[i].args[1]].op = "icmp_imm"
              /\ \E i \in 2..(val - 1) : ins[i].op = "select" /\ ins[val].args = <<i>>
        /\ saturating_float_casts # "Some(false)" =>
              /\ Len(ins) = val + 3
              /\ ret = Len(ins)
              /\ ins[val + 1] = Inst("fcmp", "I8", <<0, 0>>, 0, "Equal")
              /\ ins[val + 2] = Inst("iconst", to_ty, <<>>, 0, "")
              /\ ins[ret] = Inst("select", to_ty, <<val + 1, val, val + 2>>, 0, "")

\* A cast to signed 16 bits with the option enabled returned after eleven
\* instructions, the ireduce eighth.
C9_Witness ==
    /\ pc = "returned"
    /\ is_float(from_ty) /\ to_ty = "I16" /\ to_signed
    /\ saturating_float_casts = "Some(true)"
    /\ Len(ins) = 11
    /\ val = 8
    /\ ins[11].op = "select"

\* The range of the 8- or 16-bit destination, as numbers.
DestRange(ty, signed) ==
    LET w == bits(ty)
    IN  IF signed
        THEN <<NumOf(0 - Pow2(w - 1)), NumOf(Pow2(w - 1) - 1)>>
        ELSE <<NumOf(0), NumOf(Pow2(w) - 1)>>

\* C10: for any 32-bit value v the clamp of the 8/16-bit path yields
\* clamp(v, min, max), v read as signed for a signed destination (two
\* selects, lower bound first) and as unsigned for an unsigned one (one
\* select, no lower-bound compare); the clamped value is in the
\* destination's range, the ireduce loses nothing, and v in range is kept.
C10_ClampIsClamp ==
    (pc = "executed") =>
        LET v == Num(arg, to_signed)
            lo == DestRange(to_ty, to_signed)[1]
            hi == DestRange(to_ty, to_signed)[2]
            expected == IF NumLess(v, lo) THEN lo ELSE IF NumLess(hi, v) THEN hi ELSE v
            clamped == vals[ins[ret].args[1] + 1]
            selects == {i \in 1..Len(ins) : ins[i].op = "select"}
            compares == {i \in 1..Len(ins) : ins[i].op = "icmp_imm"}
        IN  /\ Num(clamped, to_signed) = expected
            /\ ~NumLess(Num(clamped, to_signed), lo)
            /\ ~NumLess(hi, Num(clamped, to_signed))
            /\ ins[ret].op = "ireduce"
            /\ Len(Out) = bits(to_ty)
            /\ Num(Out, to_signed) = Num(clamped, to_signed)
            /\ (~NumLess(v, lo) /\ ~NumLess(hi, v)) => Num(Out, to_signed) = v
            /\ IF to_signed
               THEN /\ Cardinality(selects) = 2
                    /\ \E i \in selects, j \in selects :
                          /\ i < j
                          /\ ins[ins[i].args[1]].name = "SignedLessThan"
                          /\ ins[ins[j].args[1]].name = "SignedGreaterThan"
                          /\ ins[j].args[3] = i
               ELSE /\ Cardinality(selects) = 1
                    /\ Cardinality(compares) = 1
                    /\ \A i \in compares : ins[i].name = "UnsignedGreaterThan"

\* An intermediate of 2^31 or more was clamped to 255 for an unsigned 8-bit
\* destination.
C10_Witness ==
    /\ pc = "executed"
    /\ to_ty = "I8" /\ ~to_signed
    /\ arg[32] = 1
    /\ Out = ImmBits(8, 255)

====
